---- MODULE Spec2Model ----
(***************************************************************************)
(* ConsultEase central system: the startup sequence of ConsultEaseApp      *)
(* (central_system/main.py), its service callables, the admin-account      *)
(* verification and the window-switching handlers.                         *)
(*                                                                         *)
(* Conventions                                                             *)
(*  - Python None is the empty tuple <<>>; an optional value v is <<v>> or *)
(*    the value itself when it is already a tuple (a student is            *)
(*    <<id, name>>).                                                       *)
(*  - A call into a controller, the database or the MQTT client may raise  *)
(*    wherever the source wraps that same call in try/except somewhere;    *)
(*    whether it raises is an input of the action (a flag drawn by \E).    *)
(*  - An operator that models a method returns the object's new fields     *)
(*    together with `raised`, TRUE when the method ended by an exception   *)
(*    propagating to its caller.                                           *)
(*                                                                         *)
(* Specifications                                                          *)
(*  - Spec: the whole program (1,582,200 states).                          *)
(*  - SpecBoot: __init__ from every admin table, with the RFID callback.   *)
(*  - SpecServices: startup, run(), the coordinator's calls, cleanup().    *)
(*  - SpecRun: the application from the end of __init__ on. What startup   *)
(*    leaves in the fields the handlers read is all in InitRun; the record *)
(*    of how startup went (registry, start_log, verify_ok, ...) is that of *)
(*    a startup in which nothing raised; no window handler reads it.       *)
(*  - SpecMigration: the migration script add_consultation_response_fields.*)
(***************************************************************************)
EXTENDS Naturals, Sequences, FiniteSets, TLC

\* ------------------------------------------------------------------ bounds
NumStudents == 1
\* Runs of the migration script in one behaviour.
MaxRuns == 2
\* Admin-creation dialogs open at once.
MaxDialogs == 1

\* ------------------------------------------------------------- vocabulary
None == <<>>

\* Python truthiness of an optional object: None is falsy, any object is truthy.
Truthy(x) == x # None

DATABASE == "DATABASE"
MQTT == "MQTT"
UI == "UI"
ServiceTypes == {DATABASE, MQTT, UI}

login == "login"
dashboard == "dashboard"
admin_login == "admin_login"
admin_dashboard == "admin_dashboard"
Windows == {login, dashboard, admin_login, admin_dashboard}

\* Window names a caller may pass to handle_window_change: the four known
\* ones and one the dispatcher does not know.
WindowNames == Windows \cup {"settings"}

StudentNames == {"Ana", "Ben"}
Students == {<<i, n>> : i \in 1..NumStudents, n \in StudentNames}
RfidUids == {"04A1B2"}

Controllers == {"rfid_controller", "faculty_controller", "consultation_controller",
                "admin_controller", "faculty_response_controller"}
StartedControllers == {"rfid_controller", "faculty_controller",
                       "consultation_controller", "faculty_response_controller"}

\* The columns the migration adds, and stand-ins for the others of the table.
ResponseColumns == {"declined_at", "response_message"}
BaseColumns == {"id", "status"}
ColumnSets == {BaseColumns \cup added : added \in SUBSET ResponseColumns}

\* --------------------------------------------------------------- variables
VARIABLES
    pc,                     \* position of the main thread in __init__ / run
    registry,               \* the coordinator's registrations, in order
    start_calls,            \* number of calls of start_system
    start_log,              \* what each start callable called by start_system did
    start_result,           \* <<>> before start_system returns, then <<bool>>
    exit_status,            \* <<>> while the process lives, then <<status>>
    controllers_constructed,
    controllers_started,
    first_time,             \* <<>> or <<is_first_time_setup()>> as read by __init__
    admin_calls,            \* admin maintenance calls issued by __init__, in order
    admin,                  \* the row of table admins with username 'admin', or None
    other_admins,           \* whether admins with another username exist
    setup_dialogs,          \* admin-creation dialogs open, waiting for the administrator
    boot_admin,             \* admin as it was when __init__ began
    verify_ok,              \* <<>> or <<no database operation of the verification raised>>
    mqtt_connected,         \* the MQTT client's connection flag
    windows_init,           \* the four self.*_window attributes are assigned
    transition_manager_init, \* self.transition_manager is assigned
    fullscreen_init,        \* self.fullscreen is assigned
    created,                \* [Windows -> BOOLEAN]: self.<w>_window is not None
    visible,                \* [Windows -> BOOLEAN]: self.<w>_window.isVisible()
    current_student,        \* self.current_student
    login_error,            \* last message given to login_window.show_error, or None
    last,                   \* the last callable or handler that ran
    columns,                \* the column names of table consultations
    runs                    \* the runs of the migration script, in order

vars == <<pc, registry, start_calls, start_log, start_result, exit_status,
          controllers_constructed, controllers_started, first_time, admin_calls,
          admin, other_admins, setup_dialogs, boot_admin, verify_ok, mqtt_connected,
          windows_init, transition_manager_init, fullscreen_init, created, visible, current_student, login_error, last, columns, runs>>

migration_vars == <<columns, runs>>

startup_vars == <<registry, start_calls, start_log, start_result,
                  controllers_constructed, controllers_started, first_time,
                  admin_calls, admin, other_admins, boot_admin, verify_ok>>

\* The fields of self that the window handlers read and write.
Self == [windows_init |-> windows_init,
         transition_manager_init |-> transition_manager_init,
         fullscreen_init |-> fullscreen_init, created |-> created, visible |-> visible,
         current_student |-> current_student, login_error |-> login_error]

self_vars == <<windows_init, transition_manager_init, fullscreen_init, created,
               visible, current_student, login_error>>

SetSelf(s) ==
    /\ windows_init' = s.windows_init
    /\ transition_manager_init' = s.transition_manager_init
    /\ fullscreen_init' = s.fullscreen_init
    /\ created' = s.created
    /\ visible' = s.visible
    /\ current_student' = s.current_student
    /\ login_error' = s.login_error

\* What `last` records of a call: the callable, its arguments (name, data), whether
\* an exception was caught inside it, whether one propagated out of it, and the
\* value it returned (<<>> when it returned None or raised).
Call(op, name, data, caught, raised, result) ==
    [op |-> op, name |-> name, data |-> data, caught |-> caught, raised |-> raised,
     result |-> result]

\* -------------------------------------------------------------- admin table
\* AdminController.hash_password: a non-empty digest of the password.
hash_password(password) == <<"hash", password>>

\* An account an administrator set up.
IntactAccount == [password_hash |-> hash_password("campus-2023"),
                  email |-> "registrar@campus.edu", force_change_password |-> FALSE]

\* AdminController.is_first_time_setup(): no admin account exists; an error while
\* counting is answered False.
is_first_time_setup(a, others, count_fails) ==
    IF count_fails THEN FALSE ELSE (a = None /\ ~others)

\* ------------------------------------------------------------------ windows
\* WindowTransitionManager.transition(from_window, to_window): the target ends up
\* shown and the window it replaces hidden.
transition(v, from, to) == [[v EXCEPT ![from] = FALSE] EXCEPT ![to] = TRUE]

\* QWidget.show() / QWidget.hide()
show(v, w) == [v EXCEPT ![w] = TRUE]
hide(v, w) == [v EXCEPT ![w] = FALSE]

\* The if/elif chain "Get current active window": the first window of `order`
\* that exists and is visible, else None.
RECURSIVE active_window(_, _)
active_window(s, order) ==
    IF order = <<>> THEN None
    ELSE IF s.created[Head(order)] /\ s.visible[Head(order)] THEN <<Head(order)>>
    ELSE active_window(s, Tail(order))

\* "Hide all other windows": each window of `order` that exists is hidden.
RECURSIVE hide_others(_, _, _)
hide_others(v, c, order) ==
    IF order = <<>> THEN v
    ELSE hide_others(IF c[Head(order)] THEN hide(v, Head(order)) ELSE v, c, Tail(order))

\* The common tail of the four show_* methods: create the target if it does not
\* exist, find the active window, hide the others, then transition or show.
\* Reading self.transition_manager, or self.fullscreen after show(), before
\* __init__ assigned it raises AttributeError.
switch_to(s, target, order) ==
    LET c == [s.created EXCEPT ![target] = TRUE]
        s1 == [s EXCEPT !.created = c]
        active == active_window(s1, order)
        v1 == hide_others(s1.visible, c, order)
    IN IF active # None
       THEN IF ~s.transition_manager_init
            THEN [self |-> [s1 EXCEPT !.visible = v1], raised |-> TRUE]
            ELSE [self |-> [s1 EXCEPT !.visible = transition(v1, active[1], target)],
                  raised |-> FALSE]
       ELSE [self |-> [s1 EXCEPT !.visible = show(v1, target)],
             raised |-> ~s.fullscreen_init]

\* Reading self.login_window before __init__ assigned it raises AttributeError.
show_login_window(s) ==
    IF ~s.windows_init THEN [self |-> s, raised |-> TRUE]
    ELSE LET r == switch_to(s, login, <<dashboard, admin_login, admin_dashboard>>)
         IN IF r.raised THEN r
            ELSE [self |-> [r.self EXCEPT !.current_student = None], raised |-> FALSE]

\* The admin dashboard left out of both window lists of show_dashboard_window.
show_dashboard_window_forgets_admin_dashboard(s, student_data, fetch_fails) ==
    IF ~s.windows_init THEN [self |-> [s EXCEPT !.current_student = student_data],
                             raised |-> TRUE]
    ELSE
    LET s1 == [s EXCEPT !.current_student = student_data,
                        !.created = [s.created EXCEPT ![dashboard] = TRUE]]
    IN IF Truthy(student_data) /\ fetch_fails
       THEN [self |-> s1, raised |-> TRUE]
       ELSE switch_to(s1, dashboard, <<login, admin_login>>)

\* fetch_fails: get_available_faculty or get_student_consultations raises.
show_dashboard_window(s, student_data, fetch_fails) ==
    IF ~s.windows_init THEN [self |-> [s EXCEPT !.current_student = student_data],
                             raised |-> TRUE]
    ELSE
    LET s1 == [s EXCEPT !.current_student = student_data,
                        !.created = [s.created EXCEPT ![dashboard] = TRUE]]
    IN IF Truthy(student_data) /\ fetch_fails
       THEN [self |-> s1, raised |-> TRUE]
       ELSE switch_to(s1, dashboard, <<login, admin_login, admin_dashboard>>)

\* What the administrator does with the admin-creation dialog: closes it,
\* creates the account 'admin', or creates an account with another username.
DialogOutcomes == {"cancelled", "admin", "other"}

\* AdminLoginWindow.show_first_time_setup(): the admin table the dialog leaves
\* when the administrator is done with it.
show_first_time_setup(db, dialog) ==
    IF dialog = "admin"
    THEN [db EXCEPT !.admin = <<IntactAccount>>]
    ELSE IF dialog = "other" THEN [db EXCEPT !.other_admins = TRUE]
    ELSE db

\* db is the admin table (the 'admin' row, whether other accounts exist);
\* count_fails: the count of is_first_time_setup fails, which it answers False.
\* dialog: the admin-creation dialog is opened; it waits for the administrator
\* while the event loop goes on delivering callbacks.
show_admin_login_window(s, db, count_fails) ==
    IF ~s.windows_init THEN [self |-> s, raised |-> TRUE, dialog |-> FALSE]
    ELSE LET r == switch_to(s, admin_login, <<login, dashboard, admin_dashboard>>)
             is_first_time == is_first_time_setup(db.admin, db.other_admins,
                                                  count_fails)
         IN IF r.raised THEN [self |-> r.self, raised |-> TRUE, dialog |-> FALSE]
            ELSE [self |-> r.self, raised |-> FALSE, dialog |-> is_first_time]

show_admin_dashboard_window(s, admin_data) ==
    IF ~s.windows_init THEN [self |-> s, raised |-> TRUE]
    ELSE switch_to(s, admin_dashboard, <<login, dashboard, admin_login>>)

\* The outcome of a show_* method that opens no dialog.
NoDialog(r) == [self |-> r.self, raised |-> r.raised, dialog |-> FALSE]

\* An unknown name treated as a request for the login window.
handle_window_change_default_login(s, window_name, data, fetch_fails, db, count_fails) ==
    IF window_name = "dashboard"
    THEN NoDialog(show_dashboard_window(s, data, fetch_fails))
    ELSE IF window_name = "admin_login"
    THEN show_admin_login_window(s, db, count_fails)
    ELSE IF window_name = "admin_dashboard"
    THEN NoDialog(show_admin_dashboard_window(s, data))
    ELSE NoDialog(show_login_window(s))

handle_window_change(s, window_name, data, fetch_fails, db, count_fails) ==
    IF window_name = "login" THEN NoDialog(show_login_window(s))
    ELSE IF window_name = "dashboard"
    THEN NoDialog(show_dashboard_window(s, data, fetch_fails))
    ELSE IF window_name = "admin_login"
    THEN show_admin_login_window(s, db, count_fails)
    ELSE IF window_name = "admin_dashboard"
    THEN NoDialog(show_admin_dashboard_window(s, data))
    ELSE [self |-> s, raised |-> FALSE, dialog |-> FALSE]

handle_student_authenticated(s, student_data, fetch_fails) ==
    show_dashboard_window([s EXCEPT !.current_student = student_data],
                          student_data, fetch_fails)

\* An unknown tag that also sends the kiosk back to the login window.
handle_rfid_scan_unknown_resets(s, student, rfid_uid, fetch_fails) ==
    IF Truthy(student) THEN handle_student_authenticated(s, student, fetch_fails)
    ELSE IF s.created[login]
         THEN [self |-> [show_login_window(s).self EXCEPT !.login_error = <<rfid_uid>>],
               raised |-> FALSE]
         ELSE [self |-> s, raised |-> FALSE]

handle_rfid_scan(s, student, rfid_uid, fetch_fails) ==
    IF Truthy(student) THEN handle_student_authenticated(s, student, fetch_fails)
    ELSE IF s.created[login]
         THEN [self |-> [s EXCEPT !.login_error = <<rfid_uid>>], raised |-> FALSE]
         ELSE [self |-> s, raised |-> FALSE]

handle_student_updated(s, updated_student, lookup_fails) ==
    IF s.created[dashboard] /\ s.visible[dashboard] /\ Truthy(s.current_student)
       /\ ~lookup_fails /\ Truthy(updated_student)
    THEN [s EXCEPT !.current_student = updated_student]
    ELSE s

\* What authenticate_admin can do: return an admin, return None, raise.
AuthOutcomes == {"admin", "none", "raises"}

\* The admin dashboard opened before the answer of authenticate_admin is looked at.
handle_admin_authenticated_opens_first(s, authenticated) ==
    IF authenticated = "raises"
    THEN [self |-> s, caught |-> TRUE, raised |-> FALSE,
          result |-> <<FALSE, "Authentication error">>]
    ELSE LET r == show_admin_dashboard_window(s, authenticated)
         IN IF r.raised
            THEN [self |-> r.self, caught |-> TRUE, raised |-> FALSE,
                  result |-> <<FALSE, "Authentication error">>]
            ELSE IF authenticated = "admin"
            THEN [self |-> r.self, caught |-> FALSE, raised |-> FALSE,
                  result |-> <<TRUE, "Authentication successful">>]
            ELSE [self |-> r.self, caught |-> FALSE, raised |-> FALSE,
                  result |-> <<FALSE, "Invalid username or password">>]

\* credentials is the dict of the admin login form, with both keys.
handle_admin_authenticated(s, authenticated) ==
    IF authenticated = "raises"
    THEN [self |-> s, caught |-> TRUE, raised |-> FALSE,
          result |-> <<FALSE, "Authentication error">>]
    ELSE IF authenticated = "admin"
    THEN LET r == show_admin_dashboard_window(s, authenticated)
         IN IF r.raised
            THEN [self |-> r.self, caught |-> TRUE, raised |-> FALSE,
                  result |-> <<FALSE, "Authentication error">>]
            ELSE [self |-> r.self, caught |-> FALSE, raised |-> FALSE,
                  result |-> <<TRUE, "Authentication successful">>]
    ELSE [self |-> s, caught |-> FALSE, raised |-> FALSE,
          result |-> <<FALSE, "Invalid username or password">>]

\* What create_consultation can do: return a consultation, return None, raise.
CreateOutcomes == {"consultation", "none", "raises"}

\* The request line logged before the try reads self.current_student.id:
\* with no current student that raises AttributeError out of the handler.
\* refresh_fails: get_student_consultations raises while the dashboard is updated.
\* The handler assigns no attribute of the application; what it changes lies in
\* the controller's tables and in the dashboard's widgets.
handle_consultation_request(s, created_by_controller, refresh_fails) ==
    IF ~Truthy(s.current_student)
    THEN [self |-> s, caught |-> FALSE, raised |-> TRUE, result |-> None]
    ELSE IF created_by_controller = "raises"
    THEN [self |-> s, caught |-> TRUE, raised |-> FALSE, result |-> <<FALSE, "Error">>]
    ELSE IF created_by_controller = "consultation"
    THEN IF s.created[dashboard] /\ refresh_fails
         THEN [self |-> s, caught |-> TRUE, raised |-> FALSE,
               result |-> <<FALSE, "Error">>]
         ELSE [self |-> s, caught |-> FALSE, raised |-> FALSE,
               result |-> <<TRUE, "Consultation request sent">>]
    ELSE [self |-> s, caught |-> FALSE, raised |-> FALSE,
          result |-> <<FALSE, "Failed to create consultation request">>]

\* --------------------------------------------------------- service callables
\* Each returns what the coordinator sees (ret, or raised when an exception leaves
\* the callable), whether an exception was caught inside (caught), and the state
\* it leaves: self and the MQTT connection flag.
\* `raises` says that the call the callable makes (get_db, connect, disconnect,
\* is_connected) raises.
Outcome(ret, caught, s, m) ==
    [ret |-> ret, caught |-> caught, raised |-> FALSE, self |-> s, mqtt |-> m]

\* An exception leaves the callable: nothing is returned.
Propagated(s, m) ==
    [ret |-> FALSE, caught |-> FALSE, raised |-> TRUE, self |-> s, mqtt |-> m]

start_database_service(s, m, raises) ==
    IF raises THEN Outcome(FALSE, TRUE, s, m) ELSE Outcome(TRUE, FALSE, s, m)

stop_database_service(s, m, raises) ==
    IF raises THEN Outcome(FALSE, TRUE, s, m) ELSE Outcome(TRUE, FALSE, s, m)

check_database_health(s, m, raises) ==
    IF raises THEN Outcome(FALSE, TRUE, s, m) ELSE Outcome(TRUE, FALSE, s, m)

start_mqtt_service(s, m, raises) ==
    IF raises THEN Outcome(FALSE, TRUE, s, m) ELSE Outcome(TRUE, FALSE, s, TRUE)

stop_mqtt_service(s, m, raises) ==
    IF raises THEN Outcome(FALSE, TRUE, s, m) ELSE Outcome(TRUE, FALSE, s, FALSE)

\* A health check written like the other two: True whenever nothing raises.
check_mqtt_health_always_true(s, m, raises) ==
    IF raises THEN Outcome(FALSE, TRUE, s, m) ELSE Outcome(TRUE, FALSE, s, m)

\* returns mqtt_service.is_connected() itself
check_mqtt_health(s, m, raises) ==
    IF raises THEN Outcome(FALSE, TRUE, s, m) ELSE Outcome(m, FALSE, s, m)

start_ui_service(s, m, raises) ==
    LET r == show_login_window(s)
    IN IF r.raised THEN Outcome(FALSE, TRUE, r.self, m)
       ELSE Outcome(TRUE, FALSE, r.self, m)

stop_ui_service(s, m, raises) == Outcome(TRUE, FALSE, s, m)

check_ui_health(s, m, raises) == Outcome(TRUE, FALSE, s, m)

StartCallables == {"_start_database_service", "_start_mqtt_service", "_start_ui_service"}
StopCallables == {"_stop_database_service", "_stop_mqtt_service", "_stop_ui_service"}
HealthCallables == {"_check_database_health", "_check_mqtt_health", "_check_ui_health"}
ServiceCallables == StartCallables \cup StopCallables \cup HealthCallables

\* Calling a registered callable (a bound method of the application).
call_service(fn, s, m, raises) ==
    CASE fn = "_start_database_service" -> start_database_service(s, m, raises)
      [] fn = "_stop_database_service" -> stop_database_service(s, m, raises)
      [] fn = "_check_database_health" -> check_database_health(s, m, raises)
      [] fn = "_start_mqtt_service" -> start_mqtt_service(s, m, raises)
      [] fn = "_stop_mqtt_service" -> stop_mqtt_service(s, m, raises)
      [] fn = "_check_mqtt_health" -> check_mqtt_health(s, m, raises)
      [] fn = "_start_ui_service" -> start_ui_service(s, m, raises)
      [] fn = "_stop_ui_service" -> stop_ui_service(s, m, raises)
      [] fn = "_check_ui_health" -> check_ui_health(s, m, raises)

\* ------------------------------------------------------- system coordinator
\* SystemCoordinator.register_service(type, start_func, stop_func, health_check)
register_service(reg, type, start_func, stop_func, health_check) ==
    Append(reg, [type |-> type, start_func |-> start_func, stop_func |-> stop_func,
                 health_check |-> health_check])

\* What raises inside the try of _register_system_services, if anything: the
\* import of ServiceType, or the register_service call for that service type.
RegistrationFailures == {"none", "import", DATABASE, MQTT, UI}

\* _register_system_services(): the three registrations, in the order DATABASE,
\* MQTT, UI, inside one try; an exception ends it there, is logged and does not
\* leave the method, so the registrations made before it stay.
register_system_services(reg, raises) ==
    IF raises \in {"import", DATABASE}
    THEN [registry |-> reg, caught |-> TRUE]
    ELSE
    LET r1 == register_service(reg, DATABASE, "_start_database_service",
                               "_stop_database_service", "_check_database_health")
    IN IF raises = MQTT THEN [registry |-> r1, caught |-> TRUE]
       ELSE
       LET r2 == register_service(r1, MQTT, "_start_mqtt_service",
                                  "_stop_mqtt_service", "_check_mqtt_health")
       IN IF raises = UI THEN [registry |-> r2, caught |-> TRUE]
          ELSE [registry |-> register_service(r2, UI, "_start_ui_service",
                                              "_stop_ui_service", "_check_ui_health"),
                caught |-> FALSE]

\* SystemCoordinator.start_system(): the start callables are called in the order
\* of registration; a start that returns False ends the run with False when the
\* service is one the coordinator cannot do without (fatal), and is passed over
\* otherwise. raises[type] says that the call inside that service's start raises.
\* An exception that leaves a start callable leaves start_system.
RECURSIVE start_system(_, _, _, _, _, _)
start_system(reg, s, m, raises, fatal, log) ==
    IF reg = <<>>
    THEN [ret |-> TRUE, raised |-> FALSE, log |-> log, self |-> s, mqtt |-> m]
    ELSE LET svc == Head(reg)
             o == call_service(svc.start_func, s, m, raises[svc.type])
             log1 == Append(log, [type |-> svc.type, fn |-> svc.start_func,
                                  ret |-> o.ret, caught |-> o.caught,
                                  raised |-> o.raised])
         IN IF o.raised \/ (~o.ret /\ svc.type \in fatal)
            THEN [ret |-> FALSE, raised |-> o.raised, log |-> log1,
                  self |-> o.self, mqtt |-> o.mqtt]
            ELSE start_system(Tail(reg), o.self, o.mqtt, raises, fatal, log1)

\* ------------------------------------------------------------ admin account
DefaultEmail == "admin@consultease.local"
DefaultPassword == "TempPass123!"

PasswordHashes == {None, hash_password("campus-2023"), hash_password(DefaultPassword)}
Emails == {"", "registrar@campus.edu", DefaultEmail}

Accounts == [password_hash : PasswordHashes, email : Emails,
             force_change_password : BOOLEAN]

\* The rows the table can hold when the application starts: an account an
\* administrator set up, possibly with its password hash or its email lost.
BootAccounts == {a \in Accounts : /\ a.password_hash # hash_password(DefaultPassword)
                                  /\ a.email # DefaultEmail
                                  /\ ~a.force_change_password}

\* AdminController.create_admin(username='admin', password, email, force_change_password)
create_admin(password, email, force_change_password) ==
    <<[password_hash |-> hash_password(password), email |-> email,
       force_change_password |-> force_change_password]>>

\* AdminController.ensure_default_admin(): the accounts it may leave under the
\* username 'admin'. An existing row is left as it is; a missing one may be
\* created, with a password.
ensure_default_admin(a) ==
    IF a # None THEN {a}
    ELSE {a} \cup {create_admin(DefaultPassword, e, TRUE) : e \in {"", DefaultEmail}}

\* f says which database operations raise: get2, write2, get3 are the lookup, the
\* update-or-create and the final lookup of the repair.
emergency_admin_repair(a, f) ==
    IF f.get2 THEN [admin |-> a, ret |-> FALSE, failed |-> TRUE]
    ELSE IF f.write2 THEN [admin |-> a, ret |-> FALSE, failed |-> TRUE]
    ELSE LET a2 == IF a # None
                   THEN <<[a[1] EXCEPT !.email = DefaultEmail,
                                       !.password_hash = hash_password(DefaultPassword),
                                       !.force_change_password = TRUE]>>
                   ELSE create_admin(DefaultPassword, DefaultEmail, TRUE)
         IN IF f.get3 THEN [admin |-> a2, ret |-> FALSE, failed |-> TRUE]
            ELSE [admin |-> a2,
                  ret |-> (a2 # None /\ a2[1].password_hash # None),
                  failed |-> FALSE]

\* A verification that looks at the password hash and forgets the email.
verify_admin_account_startup_hash_only(a, f) ==
    IF f.get1
    THEN [admin |-> emergency_admin_repair(a, f).admin, failed |-> TRUE]
    ELSE IF a # None
    THEN LET verified == a[1].password_hash # None
         IN IF ~verified
            THEN LET r == emergency_admin_repair(a, f)
                 IN [admin |-> r.admin, failed |-> r.failed]
            ELSE [admin |-> a, failed |-> FALSE]
    ELSE IF f.create1
    THEN [admin |-> emergency_admin_repair(a, f).admin, failed |-> TRUE]
    ELSE [admin |-> create_admin(DefaultPassword, DefaultEmail, TRUE), failed |-> FALSE]

\* get1 and create1 are the lookup and the create_admin of the verification itself.
\* failed: some database operation that ran raised.
verify_admin_account_startup(a, f) ==
    IF f.get1
    THEN [admin |-> emergency_admin_repair(a, f).admin, failed |-> TRUE]
    ELSE IF a # None
    THEN LET verified == a[1].password_hash # None /\ a[1].email # ""
         IN IF ~verified
            THEN LET r == emergency_admin_repair(a, f)
                 IN [admin |-> r.admin, failed |-> r.failed]
            ELSE [admin |-> a, failed |-> FALSE]
    ELSE IF f.create1
    THEN [admin |-> emergency_admin_repair(a, f).admin, failed |-> TRUE]
    ELSE [admin |-> create_admin(DefaultPassword, DefaultEmail, TRUE), failed |-> FALSE]

DbFailures == [get1 : BOOLEAN, create1 : BOOLEAN, get2 : BOOLEAN, write2 : BOOLEAN,
               get3 : BOOLEAN]

\* ------------------------------------------------------------------ startup
NoWindow == [w \in Windows |-> FALSE]

Step(name) == Call(name, "", None, FALSE, FALSE, None)

\* The state when __init__ reaches "Register services with coordinator": the
\* database is initialised and holds whatever admin rows an earlier run left.
InitWith(admin_rows, others) ==
    /\ pc = "register"
    /\ registry = <<>>
    /\ start_calls = 0
    /\ start_log = <<>>
    /\ start_result = None
    /\ exit_status = None
    /\ controllers_constructed = {}
    /\ controllers_started = {}
    /\ first_time = None
    /\ admin_calls = <<>>
    /\ admin \in admin_rows
    /\ other_admins \in others
    /\ setup_dialogs = 0
    /\ boot_admin = admin
    /\ verify_ok = None
    /\ mqtt_connected = FALSE
    /\ windows_init = FALSE
    /\ transition_manager_init = FALSE
    /\ fullscreen_init = FALSE
    /\ created = NoWindow
    /\ visible = NoWindow
    /\ current_student = None
    /\ login_error = None
    /\ last = Step("init_db")

\* The application runs on the migrated schema; the migration script is not run
\* while it does.
Migrated ==
    /\ columns = BaseColumns \cup ResponseColumns
    /\ runs = <<>>

\* The application on a fresh database or on one whose 'admin' account is intact.
Init == InitWith({None, <<IntactAccount>>}, {FALSE}) /\ Migrated

\* The startup on every content of the admin table.
InitBoot == InitWith({None} \cup {<<a>> : a \in BootAccounts}, BOOLEAN) /\ Migrated

\* __init__: self._register_system_services(); whatever it registered,
\* __init__ goes on to start_system.
RegisterSystemServices ==
    /\ pc = "register"
    /\ \E raises \in RegistrationFailures :
         LET r == register_system_services(registry, raises)
         IN /\ registry' = r.registry
            /\ last' = Call("_register_system_services", raises, None, r.caught,
                            FALSE, None)
    /\ pc' = "start_system"
    /\ UNCHANGED <<migration_vars, setup_dialogs, start_calls, start_log, start_result, exit_status,
                   controllers_constructed, controllers_started, first_time,
                   admin_calls, admin, other_admins, boot_admin, verify_ok,
                   mqtt_connected, self_vars>>

\* A start failure that is logged and then ignored.
start_branch_no_exit(ret) == [pc |-> "controllers", exit |-> None]

\* if not self.system_coordinator.start_system(): sys.exit(1)
\* Where __init__ goes on start_system's answer, and the exit status if it exits.
start_branch(ret) ==
    IF ~ret THEN [pc |-> "exited", exit |-> <<1>>]
    ELSE [pc |-> "controllers", exit |-> None]

\* The admin maintenance run whatever is_first_time_setup answers.
first_time_branch_always_maintains(ft) == "ensure_default_admin"

\* if self.admin_controller.is_first_time_setup(): (nothing) else: ensure, verify
first_time_branch(ft) == IF ft THEN "finish_init" ELSE "ensure_default_admin"

\* __init__: "Start coordinated system". An exception out of start_system is not
\* caught: the interpreter prints it and exits with status 1.
StartSystem ==
    /\ pc = "start_system"
    /\ \E raises \in [ServiceTypes -> BOOLEAN], fatal \in SUBSET ServiceTypes :
         LET r == start_system(registry, Self, mqtt_connected, raises, fatal, <<>>)
         IN /\ start_calls' = start_calls + 1
            /\ start_log' = r.log
            /\ start_result' = IF r.raised THEN None ELSE <<r.ret>>
            /\ mqtt_connected' = r.mqtt
            /\ SetSelf(r.self)
            /\ pc' = IF r.raised THEN "exited" ELSE start_branch(r.ret).pc
            /\ exit_status' = IF r.raised THEN <<1>> ELSE start_branch(r.ret).exit
            /\ last' = Call("start_system", "", None, FALSE, r.raised,
                            IF r.raised THEN None ELSE <<r.ret>>)
    /\ UNCHANGED <<migration_vars, setup_dialogs, registry, controllers_constructed, controllers_started, first_time,
                   admin_calls, admin, other_admins, boot_admin, verify_ok>>

\* __init__: "Initialize controllers (after system coordinator)"
InitControllers ==
    /\ pc = "controllers"
    /\ controllers_constructed' = Controllers
    /\ pc' = "first_time_check"
    /\ last' = Step("init_controllers")
    /\ UNCHANGED <<migration_vars, setup_dialogs, registry, start_calls, start_log, start_result, exit_status,
                   controllers_started, first_time, admin_calls, admin, other_admins,
                   boot_admin, verify_ok, mqtt_connected, self_vars>>

\* __init__: if self.admin_controller.is_first_time_setup(): ... else: ...
CheckFirstTime ==
    /\ pc = "first_time_check"
    /\ \E count_fails \in BOOLEAN :
         LET ft == is_first_time_setup(admin, other_admins, count_fails)
         IN /\ first_time' = <<ft>>
            /\ pc' = first_time_branch(ft)
            /\ last' = Call("is_first_time_setup", "", None, FALSE, FALSE, <<ft>>)
    /\ UNCHANGED <<migration_vars, setup_dialogs, registry, start_calls, start_log, start_result, exit_status,
                   controllers_constructed, controllers_started, admin_calls, admin,
                   other_admins, boot_admin, verify_ok, mqtt_connected, self_vars>>

\* __init__: self.admin_controller.ensure_default_admin()
EnsureDefaultAdmin ==
    /\ pc = "ensure_default_admin"
    /\ admin' \in ensure_default_admin(admin)
    /\ admin_calls' = Append(admin_calls, "ensure_default_admin")
    /\ pc' = "verify_admin"
    /\ last' = Step("ensure_default_admin")
    /\ UNCHANGED <<migration_vars, setup_dialogs, registry, start_calls, start_log, start_result, exit_status,
                   controllers_constructed, controllers_started, first_time,
                   other_admins, boot_admin, verify_ok, mqtt_connected, self_vars>>

\* __init__: self._verify_admin_account_startup()
VerifyAdmin ==
    /\ pc = "verify_admin"
    /\ \E f \in DbFailures :
         LET r == verify_admin_account_startup(admin, f)
         IN /\ admin' = r.admin
            /\ verify_ok' = <<~r.failed>>
    /\ admin_calls' = Append(admin_calls, "_verify_admin_account_startup")
    /\ pc' = "finish_init"
    /\ last' = Step("_verify_admin_account_startup")
    /\ UNCHANGED <<migration_vars, setup_dialogs, registry, start_calls, start_log, start_result, exit_status,
                   controllers_constructed, controllers_started, first_time,
                   other_admins, boot_admin, mqtt_connected, self_vars>>

\* __init__, "Initialize windows": the four window attributes become None.
InitWindows ==
    /\ pc = "finish_init"
    /\ windows_init' = TRUE
    /\ created' = NoWindow
    /\ visible' = NoWindow
    /\ pc' = "start_rfid"
    /\ last' = Step("init_windows")
    /\ UNCHANGED <<migration_vars, setup_dialogs, startup_vars, exit_status, mqtt_connected,
                   transition_manager_init, fullscreen_init, current_student,
                   login_error>>

\* __init__: rfid_controller.start() and register_callback(self.handle_rfid_scan);
\* from here on the reader's callback can run.
StartRfid ==
    /\ pc = "start_rfid"
    /\ controllers_started' = controllers_started \cup {"rfid_controller"}
    /\ pc' = "start_controllers"
    /\ last' = Step("rfid_controller.start")
    /\ UNCHANGED <<migration_vars, setup_dialogs, registry, start_calls, start_log, start_result,
                   exit_status, controllers_constructed, first_time, admin_calls,
                   admin, other_admins, boot_admin, verify_ok, mqtt_connected,
                   self_vars>>

\* __init__: the faculty, consultation and faculty response controllers start.
StartControllers ==
    /\ pc = "start_controllers"
    /\ controllers_started' = StartedControllers
    /\ pc' = "init_student"
    /\ last' = Step("controllers.start")
    /\ UNCHANGED <<migration_vars, setup_dialogs, registry, start_calls, start_log, start_result,
                   exit_status, controllers_constructed, first_time, admin_calls,
                   admin, other_admins, boot_admin, verify_ok, mqtt_connected,
                   self_vars>>

\* __init__: self.current_student = None
InitStudent ==
    /\ pc = "init_student"
    /\ current_student' = None
    /\ pc' = "init_transition"
    /\ last' = Step("init_student")
    /\ UNCHANGED <<migration_vars, setup_dialogs, startup_vars, exit_status, mqtt_connected,
                   windows_init, transition_manager_init, fullscreen_init, created,
                   visible, login_error>>

\* __init__: self.transition_manager = WindowTransitionManager(duration=300)
InitTransitionManager ==
    /\ pc = "init_transition"
    /\ transition_manager_init' = TRUE
    /\ pc' = "init_fullscreen"
    /\ last' = Step("init_transition_manager")
    /\ UNCHANGED <<migration_vars, setup_dialogs, startup_vars, exit_status, mqtt_connected,
                   windows_init, fullscreen_init, created, visible, current_student,
                   login_error>>

\* __init__: self.fullscreen = fullscreen, its last statement.
InitFullscreen ==
    /\ pc = "init_fullscreen"
    /\ fullscreen_init' = TRUE
    /\ pc' = "constructed"
    /\ last' = Step("init_fullscreen")
    /\ UNCHANGED <<migration_vars, setup_dialogs, startup_vars, exit_status, mqtt_connected,
                   windows_init, transition_manager_init, created, visible,
                   current_student, login_error>>

\* run(): show_login_window(), then the event loop runs.
Run ==
    /\ pc = "constructed"
    /\ LET r == show_login_window(Self)
       IN /\ SetSelf(r.self)
          /\ pc' = IF r.raised THEN "exited" ELSE "running"
          /\ exit_status' = IF r.raised THEN <<1>> ELSE exit_status
          /\ last' = Call("show_login_window", "", None, FALSE, r.raised, None)
    /\ UNCHANGED <<migration_vars, setup_dialogs, startup_vars, mqtt_connected>>

\* What QApplication.exec_() returns: 0, or the code given to QApplication.exit.
ExecReturns == {0, 3}

\* run(): sys.exit(self.app.exec_())
Quit ==
    /\ pc = "running"
    /\ \E code \in ExecReturns : exit_status' = <<code>>
    /\ pc' = "exited"
    /\ last' = Step("exec_")
    /\ UNCHANGED <<migration_vars, setup_dialogs, startup_vars, mqtt_connected, self_vars>>

\* The call of cleanup() that raises, if any.
CleanupFailures == {"none", "rfid_controller", "faculty_controller",
                    "consultation_controller", "close_db", "disconnect"}

\* cleanup(): the RFID, faculty and consultation controllers are stopped, the
\* database connections closed and MQTT disconnected, in this order; an
\* exception ends it there and is logged.
cleanup(started, connected, raises) ==
    IF raises = "rfid_controller"
    THEN [controllers_started |-> started, mqtt |-> connected, caught |-> TRUE]
    ELSE IF raises = "faculty_controller"
    THEN [controllers_started |-> started \ {"rfid_controller"},
          mqtt |-> connected, caught |-> TRUE]
    ELSE IF raises = "consultation_controller"
    THEN [controllers_started |-> started \ {"rfid_controller", "faculty_controller"},
          mqtt |-> connected, caught |-> TRUE]
    ELSE LET stopped == started \ {"rfid_controller", "faculty_controller",
                                   "consultation_controller"}
         IN IF raises \in {"close_db", "disconnect"}
            THEN [controllers_started |-> stopped, mqtt |-> connected, caught |-> TRUE]
            ELSE [controllers_started |-> stopped, mqtt |-> FALSE, caught |-> FALSE]

\* The owner of the application object calls cleanup().
Cleanup ==
    /\ pc \in {"constructed", "running"}
    /\ \E raises \in CleanupFailures :
         LET r == cleanup(controllers_started, mqtt_connected, raises)
         IN /\ controllers_started' = r.controllers_started
            /\ mqtt_connected' = r.mqtt
            /\ last' = Call("cleanup", raises, None, r.caught, FALSE, None)
    /\ UNCHANGED <<migration_vars, setup_dialogs, pc, registry, start_calls, start_log, start_result,
                   exit_status, controllers_constructed, first_time, admin_calls,
                   admin, other_admins, boot_admin, verify_ok, self_vars>>

\* ----------------------------------------------------------------- handlers
\* A window asks for another window. On a first-time setup the admin login
\* window opens its admin-creation dialog, which then waits for the administrator.
HandleWindowChange ==
    /\ pc = "running"
    /\ \E window_name \in WindowNames, data \in {None} \cup Students,
          fetch_fails \in BOOLEAN, count_fails \in BOOLEAN :
         \* the login windows take no data and the admin dashboard only displays
         \* its own; only the dashboard's fetches can fail
         /\ window_name \in {login, admin_login, admin_dashboard} => data = None
         /\ fetch_fails => Truthy(data)
         /\ window_name # admin_login => ~count_fails
         /\ LET r == handle_window_change(Self, window_name, data, fetch_fails,
                                          [admin |-> admin, other_admins |-> other_admins],
                                          count_fails)
            IN /\ r.dialog => setup_dialogs < MaxDialogs
               /\ SetSelf(r.self)
               /\ setup_dialogs' = IF r.dialog THEN setup_dialogs + 1 ELSE setup_dialogs
               /\ last' = Call("handle_window_change", window_name, data, FALSE,
                               r.raised, None)
    /\ UNCHANGED <<migration_vars, pc, startup_vars, exit_status, mqtt_connected>>

\* The administrator is done with an admin-creation dialog: whatever the event
\* loop delivered while it was open has run, and the dialog leaves its account.
FirstTimeSetupDialog ==
    /\ pc = "running"
    /\ setup_dialogs > 0
    /\ \E dialog \in DialogOutcomes :
         LET db == show_first_time_setup([admin |-> admin, other_admins |-> other_admins],
                                         dialog)
         IN /\ admin' = db.admin
            /\ other_admins' = db.other_admins
            /\ last' = Call("show_first_time_setup", dialog, None, FALSE, FALSE, None)
    /\ setup_dialogs' = setup_dialogs - 1
    /\ UNCHANGED <<migration_vars, pc, registry, start_calls, start_log, start_result,
                   exit_status, controllers_constructed, controllers_started,
                   first_time, admin_calls, boot_admin, verify_ok, mqtt_connected,
                   self_vars>>

\* The RFID reader reports a tag; its callback is registered as soon as the RFID
\* controller is started, so a tag can be reported while __init__ still runs
\* and before run() shows the login window.
HandleRfidScan ==
    /\ pc \in {"start_controllers", "init_student", "init_transition",
               "init_fullscreen", "constructed", "running"}
    /\ \E student \in {None} \cup Students, rfid_uid \in RfidUids,
          fetch_fails \in BOOLEAN :
         /\ fetch_fails => Truthy(student)
         /\ LET r == handle_rfid_scan(Self, student, rfid_uid, fetch_fails)
            IN /\ SetSelf(r.self)
               /\ last' = Call("handle_rfid_scan", rfid_uid, student, FALSE,
                               r.raised, None)
    /\ UNCHANGED <<migration_vars, setup_dialogs, pc, startup_vars, exit_status, mqtt_connected>>

\* A student record changed; the lookup answers the record with the same id, or
\* nothing.
HandleStudentUpdated ==
    /\ pc = "running"
    /\ \E updated_student \in {None} \cup Students, lookup_fails \in BOOLEAN :
         /\ Truthy(current_student) /\ Truthy(updated_student)
                => updated_student[1] = current_student[1]
         /\ SetSelf(handle_student_updated(Self, updated_student, lookup_fails))
         /\ last' = Call("handle_student_updated", "", updated_student, lookup_fails,
                         FALSE, None)
    /\ UNCHANGED <<migration_vars, setup_dialogs, pc, startup_vars, exit_status, mqtt_connected>>

\* The dashboard submits a consultation request (the callback it was given).
HandleConsultationRequest ==
    /\ pc = "running"
    /\ created[dashboard] /\ visible[dashboard]
    /\ \E created_by_controller \in CreateOutcomes, refresh_fails \in BOOLEAN :
         /\ refresh_fails => created_by_controller = "consultation"
         /\ LET r == handle_consultation_request(Self, created_by_controller,
                                                 refresh_fails)
            IN /\ SetSelf(r.self)
               /\ last' = Call("handle_consultation_request", created_by_controller,
                               None, r.caught, r.raised, r.result)
    /\ UNCHANGED <<migration_vars, setup_dialogs, pc, startup_vars, exit_status, mqtt_connected>>

\* The admin login window submits credentials (the callback it was given).
HandleAdminAuthenticated ==
    /\ pc = "running"
    /\ created[admin_login] /\ visible[admin_login]
    /\ \E authenticated \in AuthOutcomes :
         LET r == handle_admin_authenticated(Self, authenticated)
         IN /\ SetSelf(r.self)
            /\ last' = Call("handle_admin_authenticated", authenticated, None,
                            r.caught, r.raised, r.result)
    /\ UNCHANGED <<migration_vars, setup_dialogs, pc, startup_vars, exit_status, mqtt_connected>>

\* The coordinator calls a registered stop or health-check callable.
CoordinatorCall ==
    /\ pc = "running"
    /\ \E i \in 1..Len(registry), raises \in BOOLEAN :
       \E fn \in {registry[i].stop_func, registry[i].health_check} :
         LET o == call_service(fn, Self, mqtt_connected, raises)
         IN /\ SetSelf(o.self)
            /\ mqtt_connected' = o.mqtt
            /\ last' = Call(fn, registry[i].type, None, o.caught, o.raised,
                            IF o.raised THEN None ELSE <<o.ret>>)
    /\ UNCHANGED <<migration_vars, setup_dialogs, pc, startup_vars, exit_status>>

Next ==
    \/ RegisterSystemServices
    \/ StartSystem
    \/ InitControllers
    \/ CheckFirstTime
    \/ EnsureDefaultAdmin
    \/ VerifyAdmin
    \/ InitWindows
    \/ StartRfid
    \/ StartControllers
    \/ InitStudent
    \/ InitTransitionManager
    \/ InitFullscreen
    \/ Run
    \/ Quit
    \/ Cleanup
    \/ HandleWindowChange
    \/ FirstTimeSetupDialog
    \/ HandleRfidScan
    \/ HandleStudentUpdated
    \/ HandleConsultationRequest
    \/ HandleAdminAuthenticated
    \/ CoordinatorCall

\* The whole program: startup, then the event loop with its handlers.
Spec == Init /\ [][Next]_vars

\* __init__ alone, from every admin table; the RFID callback can run in it.
NextBoot ==
    \/ RegisterSystemServices
    \/ StartSystem
    \/ InitControllers
    \/ CheckFirstTime
    \/ EnsureDefaultAdmin
    \/ VerifyAdmin
    \/ InitWindows
    \/ StartRfid
    \/ StartControllers
    \/ InitStudent
    \/ InitTransitionManager
    \/ InitFullscreen
    \/ HandleRfidScan

SpecBoot == InitBoot /\ [][NextBoot]_vars

\* The services over the life of the application: startup, run(), the
\* coordinator's calls, cleanup() and the exit; the window handlers left out.
NextServices ==
    \/ RegisterSystemServices
    \/ StartSystem
    \/ InitControllers
    \/ CheckFirstTime
    \/ EnsureDefaultAdmin
    \/ VerifyAdmin
    \/ InitWindows
    \/ StartRfid
    \/ StartControllers
    \/ InitStudent
    \/ InitTransitionManager
    \/ InitFullscreen
    \/ Run
    \/ Quit
    \/ Cleanup
    \/ CoordinatorCall

SpecServices == Init /\ [][NextServices]_vars

\* self before __init__ reaches "Initialize windows".
SelfAtBoot ==
    [windows_init |-> FALSE, transition_manager_init |-> FALSE,
     fullscreen_init |-> FALSE, created |-> NoWindow, visible |-> NoWindow,
     current_student |-> None, login_error |-> None]

\* start_system on the three registrations when no call of a start callable
\* raises and no service is fatal: database and MQTT start, the UI start fails
\* on the window attributes that __init__ has not assigned yet.
CleanStart ==
    start_system(register_system_services(<<>>, "none").registry, SelfAtBoot, FALSE,
                 [type \in ServiceTypes |-> FALSE], {}, <<>>)

\* What the RFID callback can have left when __init__ ends: nothing, or a
\* dashboard created by a scan, shown unless its data fetch raised, and the
\* scanned student unless self.current_student = None came after the scan.
LeftByScans ==
    {[created |-> FALSE, visible |-> FALSE, current_student |-> None]}
    \cup [created : {TRUE}, visible : BOOLEAN, current_student : {None} \cup Students]

\* The application object when __init__ has ended, after a startup in which no
\* registration and no database or MQTT call raised: on a fresh database
\* (first-time setup) or on one whose 'admin' account is intact.
InitRun ==
    /\ pc = "constructed"
    /\ registry = register_system_services(<<>>, "none").registry
    /\ start_calls = 1
    /\ start_log = CleanStart.log
    /\ start_result = <<CleanStart.ret>>
    /\ exit_status = None
    /\ controllers_constructed = Controllers
    /\ controllers_started = StartedControllers
    /\ admin \in {None, <<IntactAccount>>}
    /\ other_admins = FALSE
    /\ setup_dialogs = 0
    /\ boot_admin = admin
    /\ first_time = <<is_first_time_setup(admin, other_admins, FALSE)>>
    /\ admin_calls = IF first_time[1] THEN <<>>
                     ELSE <<"ensure_default_admin", "_verify_admin_account_startup">>
    /\ verify_ok = IF first_time[1] THEN None ELSE <<TRUE>>
    /\ mqtt_connected = CleanStart.mqtt
    /\ windows_init = TRUE
    /\ transition_manager_init = TRUE
    /\ fullscreen_init = TRUE
    /\ \E left \in LeftByScans :
         /\ created = [NoWindow EXCEPT ![dashboard] = left.created]
         /\ visible = [NoWindow EXCEPT ![dashboard] = left.visible]
         /\ current_student = left.current_student
    /\ login_error = None
    /\ last = Step("init_fullscreen")
    /\ Migrated

\* run(), the event loop with its handlers, the coordinator's calls, cleanup().
NextRun ==
    \/ Run
    \/ Quit
    \/ Cleanup
    \/ HandleWindowChange
    \/ FirstTimeSetupDialog
    \/ HandleRfidScan
    \/ HandleStudentUpdated
    \/ HandleConsultationRequest
    \/ HandleAdminAuthenticated
    \/ CoordinatorCall

\* The application from the end of __init__ on.
SpecRun == InitRun /\ [][NextRun]_vars

\* ------------------------------- migration add_consultation_response_fields

\* op.add_column and op.drop_column: the database refuses a column that is
\* already there, or one that is not, and may fail for a reason of its own.
add_column(cols, column, fails) ==
    IF fails \/ column \in cols
    THEN [columns |-> cols, raised |-> TRUE]
    ELSE [columns |-> cols \cup {column}, raised |-> FALSE]

drop_column(cols, column, fails) ==
    IF fails \/ column \notin cols
    THEN [columns |-> cols, raised |-> TRUE]
    ELSE [columns |-> cols \ {column}, raised |-> FALSE]

\* Which calls of upgrade, and of downgrade, raise.
UpgradeFailures == [inspect : BOOLEAN, declined_at : BOOLEAN, response_message : BOOLEAN]
DowngradeFailures == [declined_at : BOOLEAN, response_message : BOOLEAN]
NoUpgradeFailure == [inspect |-> FALSE, declined_at |-> FALSE, response_message |-> FALSE]
NoDowngradeFailure == [declined_at |-> FALSE, response_message |-> FALSE]

\* Both additions decided by the test on declined_at.
upgrade_one_check(cols, f) ==
    IF f.inspect
    THEN [columns |-> cols, inspected |-> FALSE, ret |-> FALSE]
    ELSE LET seen == cols
             a1 == IF "declined_at" \notin seen
                   THEN add_column(cols, "declined_at", f.declined_at)
                   ELSE [columns |-> cols, raised |-> FALSE]
             a2 == IF "declined_at" \notin seen
                   THEN add_column(a1.columns, "response_message", f.response_message)
                   ELSE [columns |-> a1.columns, raised |-> FALSE]
         IN IF a1.raised
            THEN [columns |-> a1.columns, inspected |-> TRUE, ret |-> FALSE]
            ELSE [columns |-> a2.columns, inspected |-> TRUE, ret |-> ~a2.raised]

\* upgrade(): the column list is read once, then each column is added if it was
\* not in the list; any exception ends the function with False.
upgrade(cols, f) ==
    IF f.inspect
    THEN [columns |-> cols, inspected |-> FALSE, ret |-> FALSE]
    ELSE LET seen == cols
             a1 == IF "declined_at" \notin seen
                   THEN add_column(cols, "declined_at", f.declined_at)
                   ELSE [columns |-> cols, raised |-> FALSE]
             a2 == IF "response_message" \notin seen
                   THEN add_column(a1.columns, "response_message", f.response_message)
                   ELSE [columns |-> a1.columns, raised |-> FALSE]
         IN IF a1.raised
            THEN [columns |-> a1.columns, inspected |-> TRUE, ret |-> FALSE]
            ELSE [columns |-> a2.columns, inspected |-> TRUE, ret |-> ~a2.raised]

\* downgrade(): both columns dropped, whatever the table has; any exception ends
\* the function with False.
downgrade(cols, f) ==
    LET d1 == drop_column(cols, "declined_at", f.declined_at)
        d2 == drop_column(d1.columns, "response_message", f.response_message)
    IN IF d1.raised
       THEN [columns |-> d1.columns, inspected |-> FALSE, ret |-> FALSE]
       ELSE [columns |-> d2.columns, inspected |-> FALSE, ret |-> ~d2.raised]

\* sys.argv of a run; argv[1] is Python's sys.argv[0].
Argvs == {<<"migrate.py">>, <<"migrate.py", "upgrade">>, <<"migrate.py", "downgrade">>,
          <<"migrate.py", "upgrade", "downgrade">>}

\* The word downgrade looked for in every argument.
main_downgrade_anywhere(argv, cols, uf, df) ==
    IF \E i \in 2..Len(argv) : argv[i] = "downgrade"
    THEN LET d == downgrade(cols, df)
         IN [columns |-> d.columns, called |-> <<"downgrade">>, inspected |-> d.inspected,
             success |-> d.ret, exit |-> IF d.ret THEN 0 ELSE 1]
    ELSE LET u == upgrade(cols, uf)
         IN [columns |-> u.columns, called |-> <<"upgrade">>, inspected |-> u.inspected,
             success |-> u.ret, exit |-> IF u.ret THEN 0 ELSE 1]

\* main(): what it called, what the call returned and the exit code.
main(argv, cols, uf, df) ==
    IF Len(argv) > 1 /\ argv[2] = "downgrade"
    THEN LET d == downgrade(cols, df)
         IN [columns |-> d.columns, called |-> <<"downgrade">>, inspected |-> d.inspected,
             success |-> d.ret, exit |-> IF d.ret THEN 0 ELSE 1]
    ELSE LET u == upgrade(cols, uf)
         IN [columns |-> u.columns, called |-> <<"upgrade">>, inspected |-> u.inspected,
             success |-> u.ret, exit |-> IF u.ret THEN 0 ELSE 1]

\* One run of the script: sys.exit(main()).
MigrationMain ==
    /\ Len(runs) < MaxRuns
    /\ \E argv \in Argvs, uf \in UpgradeFailures, df \in DowngradeFailures :
         LET r == main(argv, columns, uf, df)
         IN /\ r.called = <<"upgrade">> => df = NoDowngradeFailure
            /\ r.called = <<"downgrade">> => uf = NoUpgradeFailure
            /\ columns' = r.columns
            /\ runs' = Append(runs, [argv |-> argv, called |-> r.called,
                                     before |-> columns, after |-> r.columns,
                                     inspected |-> r.inspected,
                                     success |-> r.success, exit |-> r.exit])
    /\ UNCHANGED <<pc, setup_dialogs, startup_vars, exit_status, mqtt_connected, self_vars, last>>

\* The script run up to MaxRuns times on a table with any of the column sets.
InitMigration ==
    /\ InitWith({None}, {FALSE})
    /\ columns \in ColumnSets
    /\ runs = <<>>

NextMigration == MigrationMain

SpecMigration == InitMigration /\ [][NextMigration]_vars

\* =================================================================== claims

RegisteredTypes == [i \in 1..Len(registry) |-> registry[i].type]

\* C1: once _register_system_services has run, exactly three services are
\* registered, DATABASE then MQTT then UI, each with a start, a stop and a
\* health-check callable; start_system is not called before that, so whenever it
\* has been called the three registrations are in place.
C1_ThreeServicesBeforeStart ==
    /\ pc = "register" => (start_calls = 0 /\ registry = <<>>)
    /\ (pc # "register" \/ start_calls > 0) =>
         /\ RegisteredTypes = <<DATABASE, MQTT, UI>>
         /\ \A i \in 1..Len(registry) :
              /\ registry[i].start_func \in StartCallables
              /\ registry[i].stop_func \in StopCallables
              /\ registry[i].health_check \in HealthCallables

\* What holds of the registrations whatever raises: they are the first zero to
\* three of DATABASE, MQTT, UI, each with its own three callables, none is made
\* once start_system has been called, and start_system is called on them as
\* they are.
C1_RegisteredInOrder ==
    /\ pc = "register" => (start_calls = 0 /\ registry = <<>>)
    /\ RegisteredTypes = SubSeq(<<DATABASE, MQTT, UI>>, 1, Len(registry))
    /\ \A i \in 1..Len(registry) :
         /\ registry[i].start_func \in StartCallables
         /\ registry[i].stop_func \in StopCallables
         /\ registry[i].health_check \in HealthCallables
    /\ Len(start_log) <= Len(registry)
    /\ \A i \in 1..Len(start_log) : start_log[i].fn = registry[i].start_func

\* A _register_system_services step in which nothing raises leaves the three
\* registrations; one in which something raises leaves fewer, and catches it.
C1_WithoutRegistrationErrors ==
    [][last'.op = "_register_system_services"
          => /\ ~last'.caught => RegisteredTypes' = <<DATABASE, MQTT, UI>>
             /\ last'.caught => Len(registry') < 3
             /\ pc' = "start_system"]_vars

\* C2: start_system is called at most once; when it has returned False the
\* process has exited with status 1 and no controller is constructed or started;
\* when it has returned True startup is at, or past, controller construction.
C2_StartOnceExitOnFailure ==
    /\ start_calls <= 1
    /\ start_result # None => start_calls = 1
    /\ start_result = <<FALSE>> =>
         /\ pc = "exited"
         /\ exit_status = <<1>>
         /\ controllers_constructed = {}
         /\ controllers_started = {}
    /\ start_result = <<TRUE>> =>
         (pc = "controllers" \/ controllers_constructed = Controllers)

C2_Witness ==
    /\ start_result = <<FALSE>>
    /\ exit_status = <<1>>
    /\ \E i \in 1..Len(start_log) : ~start_log[i].ret

OnlyVisible(w) == \A x \in Windows : visible[x] <=> (x = w)

\* C3: when the last request was handle_window_change for one of the four known
\* windows and its show_* method completed without an exception, exactly that
\* window is visible.
C3_RequestedWindowAloneVisible ==
    (last.op = "handle_window_change" /\ last.name \in Windows /\ ~last.raised)
        => OnlyVisible(last.name)

C3_Witness ==
    /\ last.op = "handle_window_change" /\ last.name = dashboard /\ ~last.raised
    /\ Truthy(last.data)
    /\ created[admin_dashboard] /\ created[login] /\ created[admin_login]
    /\ OnlyVisible(dashboard)

\* C4: a handle_window_change step whose window name is none of the four known
\* names changes neither the visibility of any window, nor the set of created
\* windows, nor current_student.
C4_UnknownWindowChangesNothing ==
    [][(last'.op = "handle_window_change" /\ last'.name \notin Windows)
          => UNCHANGED <<visible, created, current_student>>]_vars

C4_Witness ==
    /\ last.op = "handle_window_change" /\ last.name = "settings"
    /\ Truthy(last.data)
    /\ visible[dashboard] /\ Truthy(current_student) /\ current_student # last.data

\* C5: after handle_rfid_scan with a student, current_student is that student
\* and the dashboard is the one visible window.
C5_ScanShowsDashboard ==
    (last.op = "handle_rfid_scan" /\ Truthy(last.data))
        => (current_student = last.data /\ OnlyVisible(dashboard))

\* C6: a handle_rfid_scan step without a student changes no window's visibility
\* and not current_student, nor anything else of the application, except that
\* the login window, if it exists, is given the error message for that tag.
C6_UnknownTagOnlyReportsError ==
    [][(last'.op = "handle_rfid_scan" /\ last'.data = None)
          => /\ UNCHANGED <<visible, created, current_student, windows_init, pc,
                            exit_status, mqtt_connected, startup_vars,
                            setup_dialogs>>
             /\ IF created[login] THEN login_error' = <<last'.name>>
                ELSE login_error' = login_error]_vars

C6_Witness ==
    /\ last.op = "handle_rfid_scan" /\ last.data = None
    /\ created[login] /\ login_error = <<last.name>>
    /\ visible[dashboard] /\ Truthy(current_student)

\* C7: after every show_login_window call that is the last thing that ran
\* current_student is None, and whenever the login window is visible
\* current_student is None.
C7_LoginMeansNoStudent ==
    /\ ((last.op = "show_login_window"
         \/ (last.op = "handle_window_change" /\ last.name = login))
        /\ ~last.raised) => current_student = None
    /\ visible[login] => current_student = None

\* C8: on a startup that is not a first-time setup, once
\* _verify_admin_account_startup has finished and none of its database
\* operations raised, the account 'admin' exists with a non-empty password hash
\* and a non-empty email.
C8_AdminUsableAfterVerification ==
    (first_time = <<FALSE>> /\ verify_ok = <<TRUE>>)
        => (admin # None /\ admin[1].password_hash # None /\ admin[1].email # "")

C8_Witness ==
    /\ pc = "constructed" /\ first_time = <<FALSE>> /\ verify_ok = <<TRUE>>
    /\ boot_admin # None /\ boot_admin[1].email = "" /\ boot_admin[1].password_hash # None
    /\ admin[1].email = DefaultEmail

\* C9: when is_first_time_setup() answered True, __init__ issues neither
\* ensure_default_admin nor _verify_admin_account_startup and the 'admin' account
\* stays as it was; when it answered False, ensure_default_admin and then
\* _verify_admin_account_startup are issued, in that order and nothing else.
AdminMaintenance == <<"ensure_default_admin", "_verify_admin_account_startup">>

C9_FirstTimeSkipsAdminMaintenance ==
    /\ first_time = None => admin_calls = <<>>
    /\ first_time = <<TRUE>> => (admin_calls = <<>> /\ admin = boot_admin)
    /\ first_time = <<FALSE>> =>
         /\ admin_calls = SubSeq(AdminMaintenance, 1, Len(admin_calls))
         /\ pc \in {"finish_init", "start_rfid", "start_controllers", "init_student",
                    "init_transition", "init_fullscreen", "constructed", "running",
                    "exited"}
                => admin_calls = AdminMaintenance

C9_Witness ==
    /\ first_time = <<TRUE>> /\ pc = "constructed"
    /\ admin = None /\ admin_calls = <<>>

\* C10: every service callable that ran returned a boolean and let no exception
\* out; when an exception was raised inside it returned False; and the MQTT health
\* check, when nothing was raised, returned the client's is_connected() value.
CallableAnswerOk(ret, caught, raised) ==
    /\ ~raised
    /\ ret \in BOOLEAN
    /\ caught => ret = FALSE

C10_CallablesReturnBooleans ==
    /\ \A i \in 1..Len(start_log) :
         /\ start_log[i].fn \in StartCallables
         /\ CallableAnswerOk(start_log[i].ret, start_log[i].caught, start_log[i].raised)
    /\ last.op \in ServiceCallables =>
         /\ ~last.raised
         /\ last.result # None
         /\ CallableAnswerOk(last.result[1], last.caught, last.raised)
         /\ (last.op = "_check_mqtt_health" /\ ~last.caught)
                => last.result = <<mqtt_connected>>

C10_Witness ==
    /\ last.op = "_check_mqtt_health" /\ ~last.caught
    /\ last.result = <<FALSE>> /\ ~mqtt_connected
    /\ \E i \in 1..Len(start_log) : start_log[i].fn = "_start_ui_service" /\ start_log[i].caught

\* C11: handle_consultation_request lets no exception out and returns a
\* (success, message) pair whose success is True exactly when create_consultation
\* returned a consultation and no error occurred.
C11_RequestAnswersPair ==
    last.op = "handle_consultation_request" =>
        /\ ~last.raised
        /\ Len(last.result) = 2
        /\ last.result[1] \in BOOLEAN
        /\ last.result[1] <=> (last.name = "consultation" /\ ~last.caught)

\* C12: a handle_admin_authenticated step lets no exception out and returns a
\* pair; it answers (True, ...) and leaves the admin dashboard the one visible
\* window exactly when authenticate_admin returned an admin; when
\* authenticate_admin returned None it answers (False, "Invalid username or
\* password") and changes no window's visibility; when authenticate_admin raised
\* it answers (False, ...) and changes no window's visibility either.
C12_AdminLoginAnswers ==
    [][last'.op = "handle_admin_authenticated"
          => /\ ~last'.raised
             /\ Len(last'.result) = 2
             /\ last'.result[1] <=> (last'.name = "admin")
             /\ last'.name = "admin"
                    => \A x \in Windows : visible'[x] <=> (x = admin_dashboard)
             /\ last'.name = "none"
                    => /\ last'.result = <<FALSE, "Invalid username or password">>
                       /\ UNCHANGED visible
             /\ last'.name = "raises"
                    => (last'.caught /\ UNCHANGED visible)]_vars

C12_Witness ==
    /\ last.op = "handle_admin_authenticated" /\ last.name = "admin"
    /\ last.result = <<TRUE, "Authentication successful">>
    /\ OnlyVisible(admin_dashboard) /\ created[admin_login] /\ created[dashboard]

\* C13 (as stated): every run of upgrade keeps the columns it found and adds only
\* declined_at and response_message; on a table that has both it changes
\* nothing and returns True; and an upgrade run right after another leaves the
\* column set as the first one left it.
C13_UpgradeIdempotent ==
    \A i \in 1..Len(runs) :
        runs[i].called = <<"upgrade">> =>
            /\ runs[i].before \subseteq runs[i].after
            /\ (runs[i].after \ runs[i].before) \subseteq ResponseColumns
            /\ ResponseColumns \subseteq runs[i].before
                   => (runs[i].after = runs[i].before /\ runs[i].success)
            /\ (i < Len(runs) /\ runs[i + 1].called = <<"upgrade">>)
                   => runs[i + 1].after = runs[i].after

\* C13 (amended): every run of upgrade keeps the columns it found and adds only
\* declined_at and response_message; an upgrade that returns True leaves both
\* columns in the table, and an upgrade run right after it changes nothing; on
\* a table that has both columns upgrade changes nothing, and returns True
\* exactly when reading the column list did not raise.
C13_UpgradeIdempotentOnSuccess ==
    \A i \in 1..Len(runs) :
        runs[i].called = <<"upgrade">> =>
            /\ runs[i].before \subseteq runs[i].after
            /\ (runs[i].after \ runs[i].before) \subseteq ResponseColumns
            /\ runs[i].success => ResponseColumns \subseteq runs[i].after
            /\ ResponseColumns \subseteq runs[i].before
                   => (runs[i].after = runs[i].before
                       /\ (runs[i].success <=> runs[i].inspected))
            /\ (runs[i].success /\ i < Len(runs) /\ runs[i + 1].called = <<"upgrade">>)
                   => runs[i + 1].after = runs[i].after

C13_Witness ==
    /\ Len(runs) = 2
    /\ runs[1].called = <<"upgrade">> /\ runs[1].before = BaseColumns /\ runs[1].success
    /\ runs[2].called = <<"upgrade">> /\ runs[2].success
    /\ runs[2].after = BaseColumns \cup ResponseColumns

\* C14 (as stated): a downgrade run right after an upgrade that returned True
\* leaves the column set the upgrade started from.
C14_DowngradeRestores ==
    \A i \in 1..Len(runs) :
        (/\ i < Len(runs)
         /\ runs[i].called = <<"upgrade">> /\ runs[i].success
         /\ runs[i + 1].called = <<"downgrade">>)
            => runs[i + 1].after = runs[i].before

\* The round trip that does hold: a downgrade that returns True, run right after an upgrade that
\* returned True, leaves the column set the upgrade started from less
\* declined_at and response_message: that is the initial column set exactly when
\* it had neither of the two columns.
C14_DowngradeRemovesResponseFields ==
    \A i \in 1..Len(runs) :
        (/\ i < Len(runs)
         /\ runs[i].called = <<"upgrade">> /\ runs[i].success
         /\ runs[i + 1].called = <<"downgrade">> /\ runs[i + 1].success)
            => /\ runs[i + 1].after = runs[i].before \ ResponseColumns
               /\ runs[i + 1].after = runs[i].before
                      <=> runs[i].before \cap ResponseColumns = {}

\* C15: every run of main calls one function, downgrade when sys.argv[1] is
\* 'downgrade' and upgrade otherwise, and exits with 0 when that call returned
\* True and with 1 when it did not.
C15_MainDispatchAndExit ==
    \A i \in 1..Len(runs) :
        /\ runs[i].called = IF Len(runs[i].argv) > 1 /\ runs[i].argv[2] = "downgrade"
                            THEN <<"downgrade">> ELSE <<"upgrade">>
        /\ runs[i].exit \in {0, 1}
        /\ runs[i].exit = 0 <=> runs[i].success

C15_Witness ==
    /\ Len(runs) = 2
    /\ runs[1].argv = <<"migrate.py", "upgrade", "downgrade">>
    /\ runs[1].called = <<"upgrade">> /\ runs[1].exit = 0
    /\ runs[2].argv = <<"migrate.py", "downgrade">>
    /\ runs[2].called = <<"downgrade">> /\ runs[2].exit = 1

\* C16: a _verify_admin_account_startup step that finds an 'admin' account leaves
\* it unmodified exactly when its password hash and its email are both
\* non-empty; when either is empty the account comes out with the default
\* email, the hash of the default temporary password and force_change_password
\* True, all three.
C16_IntactKeptBrokenRepaired ==
    [][(pc = "verify_admin" /\ pc' = "finish_init" /\ admin # None)
          => /\ (admin' = admin)
                    <=> (admin[1].password_hash # None /\ admin[1].email # "")
             /\ (admin[1].password_hash = None \/ admin[1].email = "")
                    => admin' = create_admin(DefaultPassword, DefaultEmail, TRUE)]_vars

\* The same step when none of its database operations raises.
C16_WithoutDatabaseErrors ==
    [][(pc = "verify_admin" /\ pc' = "finish_init" /\ admin # None
        /\ verify_ok' = <<TRUE>>)
          => /\ (admin' = admin)
                    <=> (admin[1].password_hash # None /\ admin[1].email # "")
             /\ (admin[1].password_hash = None \/ admin[1].email = "")
                    => admin' = create_admin(DefaultPassword, DefaultEmail, TRUE)]_vars

====
